---- MODULE Spec2Model ----
(***************************************************************************)
(* Black-Scholes option calculator (src/Black-Scholes-Model.py).           *)
(*                                                                         *)
(* The script defines one pricing function, black_scholes_option_price,    *)
(* and a Tk form whose button runs calculate_option.                       *)
(*                                                                         *)
(* Numbers.  A Python float is modelled as a fixed-point integer counting  *)
(* thousandths (U units make 1.0).  A product of two floats that is a      *)
(* term of the returned price is kept exactly, in millionths (PU units     *)
(* make 1.0), as a double keeps it to about 16 significant digits at the   *)
(* magnitudes of the model.  math.log, math.sqrt, math.exp and norm.cdf    *)
(* are library code: they are modelled by fixed-point approximations of    *)
(* the mathematical functions, with the failures the library raises.       *)
(* Values are ordinary magnitudes: rounding, overflow, inf and nan of      *)
(* IEEE doubles are outside the model.                                     *)
(***************************************************************************)
EXTENDS Integers, Sequences, FiniteSets

VARIABLES
    entry,        \* the text of the five Entry widgets, by field name
    option_var,   \* the StringVar behind the two radio buttons
    dialog,       \* the modal messagebox now open, or NoDialog
    activation,   \* what the last run of calculate_option did (since the last edit)
    invocation    \* the last direct call of black_scholes_option_price

vars == <<entry, option_var, dialog, activation, invocation>>

\* Largest digit a field text or a directly passed parameter is built from.
MaxDigit == 2

\* ------------------------------------------------------------------------
\* Floats

\* Units per 1.0 of a float.
U == 1000

\* Units per 1.0 of a price (a product of two floats, kept exactly).
PU == U * U

Abs(x) == IF x < 0 THEN -x ELSE x

\* n / d rounded to the nearest integer, d > 0.
RoundDiv(n, d) == (2 * n + d) \div (2 * d)

\* Float product a * b.
Mul(a, b) == RoundDiv(a * b, U)

\* Float quotient a / b, b # 0.
Div(a, b) == IF b < 0 THEN RoundDiv(-(a * U), -b) ELSE RoundDiv(a * U, b)

RECURSIVE SqrtSearch(_, _, _)
\* Largest s in lo..hi with s * s <= n (lo * lo <= n < (hi + 1) * (hi + 1)).
SqrtSearch(n, lo, hi) ==
    IF lo >= hi THEN lo
    ELSE LET mid == (lo + hi + 1) \div 2
         IN  IF mid * mid <= n THEN SqrtSearch(n, mid, hi)
             ELSE SqrtSearch(n, lo, mid - 1)

\* math.sqrt(x) for x >= 0.
Sqrt(x) == SqrtSearch(x * U, 0, x + U)

RECURSIVE ExpSeries(_, _, _)
\* Sum of the Taylor terms of e^y from term number n on, `term` being term n.
ExpSeries(y, n, term) ==
    IF term = 0 \/ n > 12 THEN 0
    ELSE term + ExpSeries(y, n + 1, RoundDiv(term * y, U * (n + 1)))

RECURSIVE Exp(_)
\* math.exp(y): halve the argument down to |y| <= 0.5, then the Taylor series.
Exp(y) ==
    IF Abs(y) > U \div 2
    THEN LET h == Exp(y \div 2)
             g == Exp(y - (y \div 2))
         IN  Mul(h, g)
    ELSE ExpSeries(y, 0, U)

\* ln 2.
Ln2 == RoundDiv(693147 * U, 1000000)

RECURSIVE Ln(_)
\* math.log(x) for x > 0: bring x into [0.75, 1.5] by factors of 2, then
\* ln x = 2 atanh z, z = (x - 1) / (x + 1).
Ln(x) ==
    IF 2 * x > 3 * U THEN Ln(RoundDiv(x, 2)) + Ln2
    ELSE IF 4 * x < 3 * U THEN Ln(2 * x) - Ln2
    ELSE LET z  == Div(x - U, x + U)
             z2 == Mul(z, z)
             z3 == Mul(z2, z)
             z5 == Mul(z3, z2)
         IN  2 * (z + RoundDiv(z3, 3) + RoundDiv(z5, 5))

\* norm.cdf(x) for x >= 0: 1 - (1 + c1 x + c2 x^2 + c3 x^3 + c4 x^4)^-4 / 2.
CdfUpper(x) ==
    IF x >= 4 * U THEN U
    ELSE LET x2 == Mul(x, x)
             x3 == Mul(x2, x)
             x4 == Mul(x2, x2)
             p  == U + RoundDiv(1969 * x + 1152 * x2 + 3 * x3 + 195 * x4, 10000)
             q  == Div(U, p)
             q2 == Mul(q, q)
             q4 == Mul(q2, q2)
         IN  U - RoundDiv(q4, 2)

\* norm.cdf(x), the standard normal cumulative distribution function.
Cdf(x) == IF x >= 0 THEN CdfUpper(x) ELSE U - CdfUpper(-x)

\* ------------------------------------------------------------------------
\* float(text)

\* A text is a sequence of one-character strings.
DigitChars == <<"0", "1", "2", "3", "4", "5", "6", "7", "8", "9">>

IsDigit(c) == \E i \in 1..Len(DigitChars) : DigitChars[i] = c

DigitValue(c) == (CHOOSE i \in 1..Len(DigitChars) : DigitChars[i] = c) - 1

RECURSIVE Strip(_)
\* The text without its leading and trailing blanks.
Strip(t) ==
    IF t = <<>> THEN t
    ELSE IF Head(t) = " " THEN Strip(Tail(t))
    ELSE IF t[Len(t)] = " " THEN Strip(SubSeq(t, 1, Len(t) - 1))
    ELSE t

RECURSIVE Pow10(_)
Pow10(n) == IF n = 0 THEN 1 ELSE 10 * Pow10(n - 1)

RECURSIVE DigitsValue(_)
\* The number a sequence of digits writes.
DigitsValue(ds) ==
    IF ds = <<>> THEN 0
    ELSE 10 * DigitsValue(SubSeq(ds, 1, Len(ds) - 1)) + DigitValue(ds[Len(ds)])

\* float(text) on texts of blanks, a sign, digits and a point: the float, or
\* ok = FALSE where float raises ValueError.
ParseFloat(text) ==
    LET t      == Strip(text)
        signed == t # <<>> /\ Head(t) \in {"-", "+"}
        body   == IF signed THEN Tail(t) ELSE t
        points == {i \in 1..Len(body) : body[i] = "."}
        cut    == IF points = {} THEN Len(body) + 1 ELSE CHOOSE i \in points : TRUE
        whole  == SubSeq(body, 1, cut - 1)
        frac   == SubSeq(body, cut + 1, Len(body))
        ok     == /\ Cardinality(points) <= 1
                  /\ Len(whole) + Len(frac) > 0
                  /\ \A i \in 1..Len(whole) : IsDigit(whole[i])
                  /\ \A i \in 1..Len(frac) : IsDigit(frac[i])
        mag    == DigitsValue(whole) * U + RoundDiv(DigitsValue(frac) * U, Pow10(Len(frac)))
    IN  IF ok THEN [ok |-> TRUE, value |-> IF signed /\ Head(t) = "-" THEN -mag ELSE mag]
        ELSE [ok |-> FALSE, value |-> 0]

\* The texts a user types into a field.
FieldTexts ==
    {<<>>, <<"x">>, <<"-", "1">>, <<"0", ".", "5">>}
        \cup {<<DigitChars[d + 1]>> : d \in 0..MaxDigit}

\* The floats a direct caller passes.
Floats == {ParseFloat(t).value : t \in {x \in FieldTexts : ParseFloat(x).ok}}

\* ------------------------------------------------------------------------
\* black_scholes_option_price

InvalidOptionTypeMsg == "option_type must be 'call' or 'put'"

Returned(price, d1, d2, cdf_args) ==
    [kind |-> "return", exc |-> "", msg |-> "", price |-> price,
     d1 |-> d1, d2 |-> d2, cdf_args |-> cdf_args]

Raised(exc, msg) ==
    [kind |-> "raise", exc |-> exc, msg |-> msg, price |-> 0,
     d1 |-> 0, d2 |-> 0, cdf_args |-> <<>>]

\* e^(-r T), the discount factor.
Discount(r, T) == Exp(Mul(-r, T))

\* A call branch that leaves the strike undiscounted: not what the code does.
call_price_undiscounted(S, K, T, r, d1, d2) ==
    [price |-> S * Cdf(d1) - K * Cdf(d2), cdf_args |-> <<d1, d2>>]

\* The call branch: the price, and the arguments norm.cdf was given, in order.
call_price(S, K, T, r, d1, d2) ==
    [price |-> S * Cdf(d1) - Mul(K, Discount(r, T)) * Cdf(d2),
     cdf_args |-> <<d1, d2>>]

\* A put branch that computes the call formula: not what the code does.
put_price_swapped(S, K, T, r, d1, d2) == call_price(S, K, T, r, d1, d2)

\* The put branch.
put_price(S, K, T, r, d1, d2) ==
    [price |-> Mul(K, Discount(r, T)) * Cdf(-d2) - S * Cdf(-d1),
     cdf_args |-> <<-d2, -d1>>]

black_scholes_option_price(S, K, T, r, sigma, option_type) ==
    IF K = 0 THEN Raised("ZeroDivisionError", "float division by zero")
    ELSE IF Div(S, K) <= 0 THEN Raised("ValueError", "math domain error")
    ELSE IF T < 0 THEN Raised("ValueError", "math domain error")
    ELSE
    LET numerator   == Ln(Div(S, K)) + Mul(r + Mul(U \div 2, Mul(sigma, sigma)), T)
        denominator == Mul(sigma, Sqrt(T))
    IN  IF denominator = 0 THEN Raised("ZeroDivisionError", "float division by zero")
        ELSE
        LET d1 == Div(numerator, denominator)
            d2 == d1 - Mul(sigma, Sqrt(T))
        IN  IF option_type = "call"
            THEN LET b == call_price(S, K, T, r, d1, d2)
                 IN  Returned(b.price, d1, d2, b.cdf_args)
            ELSE IF option_type = "put"
            THEN LET b == put_price(S, K, T, r, d1, d2)
                 IN  Returned(b.price, d1, d2, b.cdf_args)
            ELSE Raised("ValueError", InvalidOptionTypeMsg)

NoOutcome == Raised("", "")

Args(S, K, T, r, sigma, otype) ==
    [current_stock_price |-> S, strike_price |-> K, time_to_expiration_years |-> T,
     risk_free_rate |-> r, volatility |-> sigma, option_type |-> otype]

NoArgs == Args(0, 0, 0, 0, 0, "")

Price(a) ==
    black_scholes_option_price(a.current_stock_price, a.strike_price,
        a.time_to_expiration_years, a.risk_free_rate, a.volatility, a.option_type)

\* ------------------------------------------------------------------------
\* The form

\* Most runs of calculate_option counted between two edits.
MaxRuns == 2

\* The five Entry widgets, in the order calculate_option converts them.
FieldOrder ==
    <<"entry_stock_price", "entry_strike_price", "entry_time_to_expiration",
      "entry_risk_free_rate", "entry_volatility">>

Fields == {FieldOrder[i] : i \in 1..Len(FieldOrder)}

radio_call_value == "call"

\* A Put button whose value is its label: not what the code does.
radio_put_value_capitalised == "Put"

radio_put_value == "put"

NoDialog ==
    [kind |-> "none", title |-> "", message |-> "", option_type |-> "", cents |-> 0]

\* messagebox.showerror("Input Error", ...)
ErrorDialog ==
    [kind |-> "error", title |-> "Input Error",
     message |-> "Please enter valid numbers for all fields.",
     option_type |-> "", cents |-> 0]

\* f"{option_price:.2f}": the price in hundredths.
Format2f(price) == RoundDiv(price, PU \div 100)

\* messagebox.showinfo("Option Price", ...)
InfoDialog(otype, price) ==
    [kind |-> "info", title |-> "Option Price",
     message |-> "The {option_type} option price is: ${option_price:.2f}",
     option_type |-> otype, cents |-> Format2f(price)]

\* The number of fields converted, all of them: not what calculate_option does.
ParsedCount(e) == Cardinality({i \in 1..Len(FieldOrder) : ParseFloat(e[FieldOrder[i]]).ok})

\* The number of fields calculate_option converts before a float() raises.
ParsedPrefix(e) ==
    LET bad == {i \in 1..Len(FieldOrder) : ~ParseFloat(e[FieldOrder[i]]).ok}
    IN  IF bad = {} THEN Len(FieldOrder)
        ELSE (CHOOSE i \in bad : \A j \in bad : i <= j) - 1

NoActivation ==
    [runs |-> 0, parsed |-> 0, invoked |-> FALSE, args |-> NoArgs,
     outcome |-> NoOutcome, shown |-> <<>>, escaped |-> ""]

\* Lines 74-78: what the callback does with the outcome of the pricing call.
Report(a, out) ==
    LET base == [runs |-> 1, parsed |-> Len(FieldOrder), invoked |-> TRUE, args |-> a,
                 outcome |-> out, shown |-> <<>>, escaped |-> ""]
    IN  IF out.kind = "return"
        THEN [base EXCEPT !.shown = <<InfoDialog(a.option_type, out.price)>>]
        ELSE IF out.exc = "ValueError"
        THEN [base EXCEPT !.shown = <<ErrorDialog>>]
        ELSE [base EXCEPT !.escaped = out.exc]

\* float(entry.get()) of the i-th field.
FieldValue(e, i) == ParseFloat(e[FieldOrder[i]]).value

\* One run of the callback on the fields e and the selector ov: the fields it
\* converted, the call of the pricing function, the dialogs it showed and the
\* exception that left it.
RunCallback(e, ov) ==
    IF ParsedPrefix(e) < Len(FieldOrder)
    THEN [runs |-> 1, parsed |-> ParsedPrefix(e), invoked |-> FALSE, args |-> NoArgs,
          outcome |-> NoOutcome, shown |-> <<ErrorDialog>>, escaped |-> ""]
    ELSE LET a == Args(FieldValue(e, 1), FieldValue(e, 2), FieldValue(e, 3),
                       FieldValue(e, 4), FieldValue(e, 5), ov)
         IN  Report(a, Price(a))

Min(a, b) == IF a < b THEN a ELSE b

\* A callback that empties the fields when it is done: not what the code does.
calculate_option_clearing ==
    /\ dialog = NoDialog
    /\ activation' = [RunCallback(entry, option_var)
                        EXCEPT !.runs = Min(activation.runs + 1, MaxRuns)]
    /\ dialog' = IF activation'.shown = <<>> THEN NoDialog ELSE activation'.shown[1]
    /\ entry' = [f \in Fields |-> <<>>]
    /\ UNCHANGED <<option_var, invocation>>

\* The Calculate button: calculate_option runs to its messagebox, or to the
\* exception that leaves it.
calculate_option ==
    /\ dialog = NoDialog
    /\ activation' = [RunCallback(entry, option_var)
                        EXCEPT !.runs = Min(activation.runs + 1, MaxRuns)]
    /\ dialog' = IF activation'.shown = <<>> THEN NoDialog ELSE activation'.shown[1]
    /\ UNCHANGED <<entry, option_var, invocation>>

\* The user closes the messagebox; calculate_option returns.
dismiss ==
    /\ dialog # NoDialog
    /\ dialog' = NoDialog
    /\ UNCHANGED <<entry, option_var, activation, invocation>>

\* The user replaces the text of one field.
edit(f, t) ==
    /\ dialog = NoDialog
    /\ entry[f] # t
    /\ entry' = [entry EXCEPT ![f] = t]
    /\ activation' = NoActivation
    /\ UNCHANGED <<option_var, dialog, invocation>>

\* The user clicks the Call radio button.
radio_call ==
    /\ dialog = NoDialog
    /\ option_var' = radio_call_value
    /\ activation' = NoActivation
    /\ UNCHANGED <<entry, dialog, invocation>>

\* The user clicks the Put radio button.
radio_put ==
    /\ dialog = NoDialog
    /\ option_var' = radio_put_value
    /\ activation' = NoActivation
    /\ UNCHANGED <<entry, dialog, invocation>>

NoInvocation == [args |-> NoArgs, called |-> FALSE, outcome |-> NoOutcome]

Init ==
    /\ entry = [f \in Fields |-> <<>>]
    /\ option_var = "call"
    /\ dialog = NoDialog
    /\ activation = NoActivation
    /\ invocation = NoInvocation

Next ==
    \/ \E f \in Fields, t \in FieldTexts : edit(f, t)
    \/ radio_call
    \/ radio_put
    \/ calculate_option
    \/ dismiss

Spec == Init /\ [][Next]_vars

\* ------------------------------------------------------------------------
\* The pricing function called directly

\* The option_type values a direct caller passes.
CallerOptionTypes == {"call", "put", "Call", ""}

\* The caller applies the function to the arguments it holds.
invoke ==
    /\ ~invocation.called
    /\ invocation' = [invocation EXCEPT !.called = TRUE, !.outcome = Price(invocation.args)]
    /\ UNCHANGED <<entry, option_var, dialog, activation>>

\* A caller holding any arguments, before the call.
CoreInit ==
    /\ entry = [f \in Fields |-> <<>>]
    /\ option_var = "call"
    /\ dialog = NoDialog
    /\ activation = NoActivation
    /\ \E S \in Floats, K \in Floats, T \in Floats, r \in Floats, sigma \in Floats,
          otype \in CallerOptionTypes :
           invocation = [args |-> Args(S, K, T, r, sigma, otype), called |-> FALSE,
                         outcome |-> NoOutcome]

CoreNext == invoke

CoreSpec == CoreInit /\ [][CoreNext]_vars

\* ------------------------------------------------------------------------
\* Properties

\* S > 0, K > 0, T > 0 and sigma > 0.
Valid(a) ==
    /\ a.current_stock_price > 0
    /\ a.strike_price > 0
    /\ a.time_to_expiration_years > 0
    /\ a.volatility > 0

FieldOk(i) == ParseFloat(entry[FieldOrder[i]]).ok

\* C1: a call whose option_type is neither 'call' nor 'put' fails with the
\* invalid-option-type error, whatever the five market parameters are, and no
\* other failure is reported in its place.
C1_InvalidTypeRaisesInvalidOptionType ==
    (invocation.called /\ invocation.args.option_type \notin {"call", "put"})
        => /\ invocation.outcome.kind = "raise"
           /\ invocation.outcome.exc = "ValueError"
           /\ invocation.outcome.msg = InvalidOptionTypeMsg

\* C2: a call with S <= 0, K <= 0, T <= 0 or sigma <= 0 fails with
\* InvalidParameter; it returns no number and ends in no numeric fault.
C2_NonPositiveRaisesInvalidParameter ==
    (invocation.called /\ ~Valid(invocation.args))
        => /\ invocation.outcome.kind = "raise"
           /\ invocation.outcome.exc = "InvalidParameter"

\* C3: every activation of the Calculate button ends with exactly one dialog
\* shown, the info dialog when the computation succeeded and the error dialog
\* otherwise, and with no exception leaving the callback.
C3_EveryActivationShowsOneDialog ==
    activation.runs > 0
        => /\ Len(activation.shown) = 1
           /\ activation.escaped = ""
           /\ IF activation.invoked /\ activation.outcome.kind = "return"
              THEN activation.shown[1].kind = "info"
              ELSE activation.shown[1].kind = "error"

\* C4: the five fields are converted in order; when a conversion fails the
\* pricing function is not called in that activation and the callback shows
\* the error dialog itself.
C4_ParseErrorNeverReachesCore ==
    activation.runs > 0
        => /\ \A i \in 1..activation.parsed : FieldOk(i)
           /\ activation.parsed < Len(FieldOrder) => ~FieldOk(activation.parsed + 1)
           /\ (\E i \in 1..Len(FieldOrder) : ~FieldOk(i))
                => /\ ~activation.invoked
                   /\ activation.shown = <<ErrorDialog>>
                   /\ activation.escaped = ""
           /\ activation.invoked
                => /\ activation.parsed = Len(FieldOrder)
                   /\ activation.args =
                        Args(FieldValue(entry, 1), FieldValue(entry, 2),
                             FieldValue(entry, 3), FieldValue(entry, 4),
                             FieldValue(entry, 5), option_var)

\* An activation stopped at the third field, with a later field that converts.
C4_Witness ==
    /\ activation.runs > 0
    /\ activation.parsed = 2
    /\ FieldOk(4)
    /\ dialog = ErrorDialog

\* C6: the selector always holds 'call' or 'put', exactly one radio button is
\* selected, and the option_type the form passes to the pricing function is
\* 'call' or 'put', so the invalid-option-type branch is not reached from it.
C6_SelectorIsCallOrPut ==
    /\ option_var \in {"call", "put"}
    /\ (option_var = radio_call_value) # (option_var = radio_put_value)
    /\ activation.invoked
         => /\ activation.args.option_type \in {"call", "put"}
            /\ activation.outcome.msg # InvalidOptionTypeMsg

\* The Put button was clicked and the form priced a put.
C6_Witness ==
    /\ option_var = "put"
    /\ activation.invoked
    /\ activation.args.option_type = "put"
    /\ activation.outcome.kind = "return"

\* The outcome of the same call with the other of the two option types.
OtherOutcome ==
    Price([invocation.args EXCEPT
             !.option_type = IF invocation.args.option_type = "call" THEN "put" ELSE "call"])

C8_PricingFormula ==
    (invocation.called /\ Valid(invocation.args)
        /\ invocation.args.option_type \in {"call", "put"})
        => LET S     == invocation.args.current_stock_price
               K     == invocation.args.strike_price
               T     == invocation.args.time_to_expiration_years
               r     == invocation.args.risk_free_rate
               sigma == invocation.args.volatility
               d1    == Div(Ln(Div(S, K)) + Mul(r + Mul(U \div 2, Mul(sigma, sigma)), T),
                            Mul(sigma, Sqrt(T)))
               d2    == d1 - Mul(sigma, Sqrt(T))
               disc  == Mul(K, Exp(Mul(-r, T)))
               out   == invocation.outcome
           IN  /\ out.kind = "return"
               /\ out.d1 = d1
               /\ out.d2 = d2
               /\ Len(out.cdf_args) = 2
               /\ invocation.args.option_type = "call"
                    => /\ out.price = S * Cdf(d1) - disc * Cdf(d2)
                       /\ out.cdf_args = <<d1, d2>>
               /\ invocation.args.option_type = "put"
                    => /\ out.price = disc * Cdf(-d2) - S * Cdf(-d1)
                       /\ out.cdf_args = <<-d2, -d1>>

\* A put returned for valid parameters whose price differs from the call's.
C8_Witness ==
    /\ invocation.called
    /\ Valid(invocation.args)
    /\ invocation.args.option_type = "put"
    /\ invocation.outcome.kind = "return"
    /\ invocation.outcome.price # OtherOutcome.price
    /\ Len(invocation.outcome.cdf_args) = 2

\* C9: the Input Error dialog is shown if and only if one of the five fields
\* failed to convert; a failure of the pricing function after all five
\* converted is not reported as a parse error.
C9_InputErrorIffParseFailure ==
    activation.runs > 0
        => ((\E i \in 1..Len(activation.shown) : activation.shown[i] = ErrorDialog)
              <=> activation.parsed < Len(FieldOrder))

\* C10: an activation, however it ends, leaves the five fields and the
\* selector as they were and the form ready for another activation; a second
\* activation with no edit in between has the same outcome.  (A step of
\* calculate_option or dismiss leaves an activation on record, runs > 0.)
C10_ActivationLeavesFormUnchanged ==
    /\ [][(activation'.runs > 0 /\ (calculate_option \/ dismiss))
            => /\ entry' = entry
               /\ option_var' = option_var]_vars
    /\ [][(activation.runs > 0 /\ activation'.runs > 0 /\ calculate_option)
            => [activation' EXCEPT !.runs = 0] = [activation EXCEPT !.runs = 0]]_vars

\* The form took a second activation in a row, which ended like the first with
\* an exception leaving the callback, and is ready for a third.
C10_Witness ==
    /\ activation.runs = 2
    /\ activation.escaped # ""
    /\ dialog = NoDialog

====
